---- MODULE Spec2Model ----
(***************************************************************************)
(* Model of the four analytics functions of tasknexus/assistix:            *)
(*   detect_volume_bursts      (token_burst_predictor.py)                  *)
(*   generate_activity_heatmap (token_activity_heatmap.py)                 *)
(*   calculate_risk_score      (risk_scoring.py)                           *)
(*   compute_shannon_entropy   (transaction_entropy_analyzer.py)           *)
(* One behaviour is one call of one function: Init draws the function and  *)
(* its arguments, the actions are the statements and loop iterations of    *)
(* its body.  Python lists are sequences; Python index j is At(s, j).      *)
(* Floats are modelled exactly: quotients as reduced fractions, scores and *)
(* logarithms in fixed point (Micro units per 1.0).                        *)
(***************************************************************************)
EXTENDS Integers, Sequences, FiniteSets

VARIABLES
    fn, pc, error, result,
    \* detect_volume_bursts
    volumes, threshold_ratio, min_interval, i, last_idx, events,
    \* generate_activity_heatmap
    timestamps, counts, buckets, normalize, return_bins,
    t_min, span, agg, bins, zip_pos, values,
    \* calculate_risk_score
    price_change_pct, liquidity_usd, flags_mask,
    vol_score, liq_score, flag_score, raw_score,
    \* compute_shannon_entropy
    addresses, freq, total, entropy, scan_pos

ctlVars   == <<fn, pc, error, result>>
burstVars == <<volumes, threshold_ratio, min_interval, i, last_idx, events>>
heatVars  == <<timestamps, counts, buckets, normalize, return_bins,
               t_min, span, agg, bins, zip_pos, values>>
riskVars  == <<price_change_pct, liquidity_usd, flags_mask,
               vol_score, liq_score, flag_score, raw_score>>
entVars   == <<addresses, freq, total, entropy, scan_pos>>
vars      == <<ctlVars, burstVars, heatVars, riskVars, entVars>>

---------------------------------------------------------------------------
\* Bounds of the model.
MaxVolLen    == 4
MaxVol       == 3
MaxInterval  == 3
MaxSeriesLen == 2
MaxTime      == 3
MaxBuckets   == 3
MaxFlagBits  == 3
MaxAddrLen   == 4

---------------------------------------------------------------------------
\* Generic helpers.

\* Python's 0-based s[j].
At(s, j) == s[j + 1]

\* All sequences over S of length 0..n.
SeqsUpTo(S, n) == UNION {[1..k -> S] : k \in 0..n}

Abs(x) == IF x < 0 THEN -x ELSE x

Min2(a, b) == IF a < b THEN a ELSE b

Max2(a, b) == IF a > b THEN a ELSE b

RECURSIVE Gcd(_, _)
Gcd(a, b) == IF b = 0 THEN a ELSE Gcd(b, a % b)

\* The float quotient n / d (d # 0) as a reduced fraction with positive denominator.
TrueDiv(n, d) ==
    LET g == Gcd(Abs(n), Abs(d))
        s == IF d < 0 THEN -1 ELSE 1
    IN  [num |-> s * (n \div g), den |-> s * (d \div g)]

\* int(n / d) for d > 0: truncation toward zero.
IntTrunc(n, d) == IF n >= 0 THEN n \div d ELSE -((-n) \div d)

\* n / d (n >= 0, d > 0) rounded to the nearest integer.
RoundDiv(n, d) == (2 * n + d) \div (2 * d)

RECURSIVE SumSeq(_)
SumSeq(s) == IF s = <<>> THEN 0 ELSE s[1] + SumSeq(Tail(s))

RECURSIVE MaxSeq(_)
MaxSeq(s) == IF Len(s) = 1 THEN s[1] ELSE Max2(s[1], MaxSeq(Tail(s)))

RECURSIVE MinSeq(_)
MinSeq(s) == IF Len(s) = 1 THEN s[1] ELSE Min2(s[1], MinSeq(Tail(s)))

---------------------------------------------------------------------------
\* Idle values of the variables of the functions that are not being called.
IdleBurst ==
    /\ volumes = <<>> /\ threshold_ratio = [num |-> 1, den |-> 1]
    /\ min_interval = 0 /\ i = 0 /\ last_idx = 0 /\ events = <<>>

IdleHeat ==
    /\ timestamps = <<>> /\ counts = <<>> /\ buckets = 1
    /\ normalize = FALSE /\ return_bins = FALSE
    /\ t_min = 0 /\ span = 0 /\ agg = <<>> /\ bins = <<>>
    /\ zip_pos = 0 /\ values = <<>>

IdleRisk ==
    /\ price_change_pct = 0 /\ liquidity_usd = 0 /\ flags_mask = 0
    /\ vol_score = 0 /\ liq_score = 0 /\ flag_score = 0 /\ raw_score = 0

IdleEnt ==
    /\ addresses = <<>> /\ freq = <<>> /\ total = 0
    /\ entropy = 0 /\ scan_pos = 0

---------------------------------------------------------------------------
\* detect_volume_bursts(volumes, threshold_ratio, min_interval)

\* Threshold ratios the calls are made with (1.0, 1.5 the default, 2.0).
Thresholds == {[num |-> 1, den |-> 1], [num |-> 3, den |-> 2], [num |-> 2, den |-> 1]}

\* float('inf')
Inf == [inf |-> TRUE, num |-> 1, den |-> 0]

\* ratio = (curr / prev) if prev > 0 else float('inf')
Ratio(prev, curr) ==
    IF prev > 0 THEN [inf |-> FALSE, num |-> curr, den |-> prev] ELSE Inf

\* ratio >= threshold_ratio
RatioGeq(r, thr) == r.inf \/ r.num * thr.den >= thr.num * r.den

\* round(ratio, 4), in units of 1/10000; round(inf, 4) is inf.
Round4Ratio(r) ==
    IF r.inf THEN Inf
    ELSE [inf |-> FALSE, num |-> RoundDiv(r.num * 10000, r.den), den |-> 10000]

\* Variant: last_idx starts at 0.
InitLastIdx_Zero(mi) == 0

\* last_idx = -min_interval
InitLastIdx(mi) == -mi

\* The event test of the loop body at index j with last event index last.
Fires(vols, thr, mi, j, last) ==
    /\ RatioGeq(Ratio(At(vols, j - 1), At(vols, j)), thr)
    /\ (j - last) >= mi

BurstEvent(vols, j) ==
    [index    |-> j,
     previous |-> At(vols, j - 1),
     current  |-> At(vols, j),
     ratio    |-> Round4Ratio(Ratio(At(vols, j - 1), At(vols, j)))]

\* last_idx after the loop body at index j.
NextLastIdx(fires, j, last) == IF fires THEN j ELSE last

InitBurst ==
    /\ fn = "burst" /\ pc = "loop" /\ error = "none" /\ result = <<>>
    /\ volumes \in SeqsUpTo(0..MaxVol, MaxVolLen)
    /\ threshold_ratio \in Thresholds
    /\ min_interval \in 0..MaxInterval
    /\ i = 1
    /\ last_idx = InitLastIdx(min_interval)
    /\ events = <<>>
    /\ IdleHeat /\ IdleRisk /\ IdleEnt

\* One iteration of `for i in range(1, len(volumes))`.
BurstLoop ==
    /\ fn = "burst" /\ pc = "loop"
    /\ i < Len(volumes)
    /\ LET fires == Fires(volumes, threshold_ratio, min_interval, i, last_idx)
       IN  /\ events' = IF fires THEN Append(events, BurstEvent(volumes, i)) ELSE events
           /\ last_idx' = NextLastIdx(fires, i, last_idx)
    /\ i' = i + 1
    /\ UNCHANGED <<fn, pc, error, result, volumes, threshold_ratio, min_interval>>
    /\ UNCHANGED <<heatVars, riskVars, entVars>>

\* return events
BurstReturn ==
    /\ fn = "burst" /\ pc = "loop"
    /\ i >= Len(volumes)
    /\ pc' = "done"
    /\ result' = events
    /\ UNCHANGED <<fn, error, burstVars, heatVars, riskVars, entVars>>

---------------------------------------------------------------------------
\* generate_activity_heatmap(timestamps, counts, buckets, normalize, return_bins)
\* The plot branch only draws `values` and `bins` with matplotlib and changes
\* neither, so it has no counterpart here.

\* Counts the calls are made with (activity counts, and a negative entry).
CountVals == {-1, 0, 1, 3}

\* t_min, t_max = (min(timestamps), max(timestamps)) if timestamps else (0, 0)
TMin(ts) == IF ts # <<>> THEN MinSeq(ts) ELSE 0

TMax(ts) == IF ts # <<>> THEN MaxSeq(ts) ELSE 0

\* span = max(t_max - t_min, 1)
Span(ts) == Max2(TMax(ts) - TMin(ts), 1)

\* Variant: aggregates start at 1.
InitAgg_Ones(b) == [k \in 1..b |-> 1]

\* agg = [0] * buckets
InitAgg(b) == [k \in 1..b |-> 0]

\* int(t_min + k * bucket_size) with bucket_size = span / buckets
BinEdge(tmin, sp, b, k) == IntTrunc(tmin * b + k * sp, b)

\* Variant: one bin too many, range(buckets + 1).
MakeBins_Extra(tmin, sp, b) ==
    [k \in 1..(b + 1) |-> <<BinEdge(tmin, sp, b, k - 1), BinEdge(tmin, sp, b, k)>>]

\* the list built by `for i in range(buckets): bins.append((start, end))`
MakeBins(tmin, sp, b) ==
    [k \in 1..b |-> <<BinEdge(tmin, sp, b, k - 1), BinEdge(tmin, sp, b, k)>>]

\* idx = min(buckets - 1, int((t - t_min) / bucket_size))
BucketIndex(t, tmin, sp, b) == Min2(b - 1, IntTrunc((t - tmin) * b, sp))

\* number of pairs zip(timestamps, counts) yields
ZipLen(ts, cs) == Min2(Len(ts), Len(cs))

\* Variant: `=` for `+=`.
AddCount_Assign(a, idx, c) == [a EXCEPT ![idx + 1] = c]

\* agg[idx] += c
AddCount(a, idx, c) == [a EXCEPT ![idx + 1] = @ + c]

\* Variant: divides by the sum of the aggregates.
NormDivisor_Sum(a) == IF SumSeq(a) = 0 THEN 1 ELSE SumSeq(a)

\* m = max(agg) or 1
NormDivisor(a) == IF MaxSeq(a) = 0 THEN 1 ELSE MaxSeq(a)

\* values = [val / m for val in agg]
Normalized(a) == [k \in 1..Len(a) |-> TrueDiv(a[k], NormDivisor(a))]

\* values = ... if normalize else agg
HeatValues(a, norm) == IF norm THEN Normalized(a) ELSE a

InitHeat ==
    /\ fn = "heat" /\ pc = "setup" /\ error = "none" /\ result = <<>>
    /\ timestamps \in SeqsUpTo(0..MaxTime, MaxSeriesLen)
    /\ counts \in SeqsUpTo(CountVals, MaxSeriesLen)
    /\ buckets \in 0..MaxBuckets
    /\ normalize \in BOOLEAN
    /\ return_bins \in BOOLEAN
    /\ t_min = 0 /\ span = 0 /\ agg = <<>> /\ bins = <<>>
    /\ zip_pos = 0 /\ values = <<>>
    /\ IdleBurst /\ IdleRisk /\ IdleEnt

\* Lines 13-23; span / buckets raises ZeroDivisionError when buckets = 0.
HeatSetup ==
    /\ fn = "heat" /\ pc = "setup"
    /\ IF buckets = 0
       THEN /\ error' = "ZeroDivisionError"
            /\ pc' = "raised"
            /\ UNCHANGED <<t_min, span, agg, bins>>
       ELSE /\ t_min' = TMin(timestamps)
            /\ span' = Span(timestamps)
            /\ agg' = InitAgg(buckets)
            /\ bins' = MakeBins(TMin(timestamps), Span(timestamps), buckets)
            /\ pc' = "bucketize"
            /\ UNCHANGED error
    /\ UNCHANGED <<fn, result, timestamps, counts, buckets, normalize,
                   return_bins, zip_pos, values>>
    /\ UNCHANGED <<burstVars, riskVars, entVars>>

\* One iteration of `for t, c in zip(timestamps, counts)`.
HeatBucketize ==
    /\ fn = "heat" /\ pc = "bucketize"
    /\ zip_pos < ZipLen(timestamps, counts)
    /\ LET t   == At(timestamps, zip_pos)
           c   == At(counts, zip_pos)
           idx == BucketIndex(t, t_min, span, buckets)
       IN  agg' = AddCount(agg, idx, c)
    /\ zip_pos' = zip_pos + 1
    /\ UNCHANGED <<ctlVars, timestamps, counts, buckets, normalize,
                   return_bins, t_min, span, bins, values>>
    /\ UNCHANGED <<burstVars, riskVars, entVars>>

\* Lines 30-35, once zip is exhausted.
HeatNormalize ==
    /\ fn = "heat" /\ pc = "bucketize"
    /\ zip_pos >= ZipLen(timestamps, counts)
    /\ values' = HeatValues(agg, normalize)
    /\ pc' = "return"
    /\ UNCHANGED <<fn, error, result, timestamps, counts, buckets, normalize,
                   return_bins, t_min, span, agg, bins, zip_pos>>
    /\ UNCHANGED <<burstVars, riskVars, entVars>>

\* return (values, bins) if return_bins else values
HeatReturn ==
    /\ fn = "heat" /\ pc = "return"
    /\ result' = IF return_bins THEN <<values, bins>> ELSE values
    /\ pc' = "done"
    /\ UNCHANGED <<fn, error, heatVars, burstVars, riskVars, entVars>>

---------------------------------------------------------------------------
\* calculate_risk_score(price_change_pct, liquidity_usd, flags_mask)
\* price_change_pct is in units of 0.001 percent, liquidity_usd in cents,
\* scores in Micro units per point.

Micro == 1000000

\* Price changes the calls are made with (0.001 % units): +-20 %, +-10 %, ...
PctVals == {-20000, -10000, -2501, -1, 0, 1, 3, 5000, 10000, 12345}

\* Liquidities the calls are made with (cents): negative, zero, and
\* 1, 2, 5 times a power of ten from 0.01 USD up to 10^7 USD.
Liquidities ==
    {-100, 0} \cup {m * 10^e : m \in {1, 2, 5}, e \in 0..8} \cup {10^9}

FlagMasks == -(2^MaxFlagBits - 1) .. (2^MaxFlagBits - 1)

\* math.log10 of 1, 2 and 5, in Micro.
Log10Digit(m) == CASE m = 1 -> 0 [] m = 2 -> 301030 [] m = 5 -> 698970

\* math.log10(x) for x = m * 10^e cents taken as cents, in Micro.
RECURSIVE Log10Cents(_)
Log10Cents(x) ==
    IF x % 10 = 0 THEN Micro + Log10Cents(x \div 10) ELSE Log10Digit(x)

\* math.log10(liquidity_usd), in Micro (100 cents to the dollar).
Log10Usd(x) == Log10Cents(x) - 2 * Micro

\* vol_score = min(abs(price_change_pct) / 10, 1) * 50
VolScore(pct) == Min2(Abs(pct) * 100, Micro) * 50

\* liq_score = max(0.0, 30 - log10(liquidity_usd) * 5) if liquidity_usd > 0 else 30.0
LiqScore(liq) ==
    IF liq > 0 THEN Max2(0, 30 * Micro - Log10Usd(liq) * 5) ELSE 30 * Micro

\* bin(n).count("1") for n >= 0
RECURSIVE BitCount(_)
BitCount(n) == IF n = 0 THEN 0 ELSE (n % 2) + BitCount(n \div 2)

\* flag_count = bin(flags_mask).count("1"); bin(-5) is "-0b101"
FlagCount(mask) == BitCount(Abs(mask))

\* flag_score = flag_count * 5
FlagScore(mask) == FlagCount(mask) * 5 * Micro

\* round(x, 2) for x >= 0 in Micro. A decimal tie is decided by the binary
\* value of the float, which lies above or below the tie: `up` says which.
Round2(x, up) ==
    LET q == x \div 10000
        r == x % 10000
    IN  IF r > 5000 \/ (r = 5000 /\ up) THEN (q + 1) * 10000 ELSE q * 10000

\* Variant: no upper clamp.
ClampScore_None(rounded) == rounded

\* min(round(raw_score, 2), 100.0)
ClampScore(rounded) == Min2(rounded, 100 * Micro)

RawScore(pct, liq, mask) == VolScore(pct) + LiqScore(liq) + FlagScore(mask)

RiskScore(pct, liq, mask, up) == ClampScore(Round2(RawScore(pct, liq, mask), up))

InitRisk ==
    /\ fn = "risk" /\ pc = "call" /\ error = "none" /\ result = <<>>
    /\ price_change_pct \in PctVals
    /\ liquidity_usd \in Liquidities
    /\ flags_mask \in FlagMasks
    /\ vol_score = 0 /\ liq_score = 0 /\ flag_score = 0 /\ raw_score = 0
    /\ IdleBurst /\ IdleHeat /\ IdleEnt

\* The body, lines 12-26.
RiskCalc ==
    /\ fn = "risk" /\ pc = "call"
    /\ vol_score' = VolScore(price_change_pct)
    /\ liq_score' = LiqScore(liquidity_usd)
    /\ flag_score' = FlagScore(flags_mask)
    /\ raw_score' = vol_score' + liq_score' + flag_score'
    /\ \E up \in BOOLEAN : result' = ClampScore(Round2(raw_score', up))
    /\ pc' = "done"
    /\ UNCHANGED <<fn, error, price_change_pct, liquidity_usd, flags_mask>>
    /\ UNCHANGED <<burstVars, heatVars, entVars>>

---------------------------------------------------------------------------
\* compute_shannon_entropy(addresses); entropy in Micro bits.

AddrSet == {"a", "b", "c", "d"}

\* math.log2 of the odd numbers below 16, in Micro.
Log2Odd(n) ==
    CASE n = 1 -> 0       [] n = 3 -> 1584963  [] n = 5 -> 2321928
      [] n = 7 -> 2807355 [] n = 9 -> 3169925  [] n = 11 -> 3459432
      [] n = 13 -> 3700440 [] n = 15 -> 3906891

\* math.log2(n) for 1 <= n < 16, in Micro.
RECURSIVE Log2Int(_)
Log2Int(n) == IF n % 2 = 0 THEN Micro + Log2Int(n \div 2) ELSE Log2Odd(n)

\* Variant: freq[a] = 1.
FreqPut_Overwrite(f, a) ==
    IF \E k \in 1..Len(f) : f[k].key = a
    THEN [k \in 1..Len(f) |->
             IF f[k].key = a THEN [key |-> a, count |-> 1] ELSE f[k]]
    ELSE Append(f, [key |-> a, count |-> 1])

\* freq[a] = freq.get(a, 0) + 1; the dict keeps insertion order.
FreqPut(f, a) ==
    IF \E k \in 1..Len(f) : f[k].key = a
    THEN [k \in 1..Len(f) |->
             IF f[k].key = a THEN [key |-> a, count |-> f[k].count + 1] ELSE f[k]]
    ELSE Append(f, [key |-> a, count |-> 1])

\* - p * math.log2(p) with p = count / total, in Micro.
EntropyTerm(count, tot) == RoundDiv(count * (Log2Int(tot) - Log2Int(count)), tot)

\* round(entropy, 4), in Micro.
Round4(x) == RoundDiv(x, 100) * 100

InitEnt ==
    /\ fn = "entropy" /\ pc = "start" /\ error = "none" /\ result = <<>>
    /\ addresses \in SeqsUpTo(AddrSet, MaxAddrLen)
    /\ freq = <<>> /\ total = 0 /\ entropy = 0 /\ scan_pos = 0
    /\ IdleBurst /\ IdleHeat /\ IdleRisk

\* if not addresses: return 0.0
EntropyEmpty ==
    /\ fn = "entropy" /\ pc = "start"
    /\ addresses = <<>>
    /\ result' = 0
    /\ pc' = "done"
    /\ UNCHANGED <<fn, error, entVars, burstVars, heatVars, riskVars>>

\* One iteration of `for a in addresses`.
EntropyCount ==
    /\ fn = "entropy" /\ pc \in {"start", "count"}
    /\ addresses # <<>>
    /\ scan_pos < Len(addresses)
    /\ freq' = FreqPut(freq, At(addresses, scan_pos))
    /\ scan_pos' = scan_pos + 1
    /\ pc' = "count"
    /\ UNCHANGED <<fn, error, result, addresses, total, entropy>>
    /\ UNCHANGED <<burstVars, heatVars, riskVars>>

\* total = len(addresses); entropy = 0.0
EntropyTotal ==
    /\ fn = "entropy" /\ pc = "count"
    /\ scan_pos >= Len(addresses)
    /\ total' = Len(addresses)
    /\ entropy' = 0
    /\ scan_pos' = 0
    /\ pc' = "sum"
    /\ UNCHANGED <<fn, error, result, addresses, freq>>
    /\ UNCHANGED <<burstVars, heatVars, riskVars>>

\* One iteration of `for count in freq.values()`.
EntropyAccum ==
    /\ fn = "entropy" /\ pc = "sum"
    /\ scan_pos < Len(freq)
    /\ entropy' = entropy + EntropyTerm(At(freq, scan_pos).count, total)
    /\ scan_pos' = scan_pos + 1
    /\ UNCHANGED <<ctlVars, addresses, freq, total>>
    /\ UNCHANGED <<burstVars, heatVars, riskVars>>

\* return round(entropy, 4)
EntropyReturn ==
    /\ fn = "entropy" /\ pc = "sum"
    /\ scan_pos >= Len(freq)
    /\ result' = Round4(entropy)
    /\ pc' = "done"
    /\ UNCHANGED <<fn, error, entVars, burstVars, heatVars, riskVars>>

\* The whole function as an operator, for comparing calls.
RECURSIVE CountAll(_, _)
CountAll(addrs, f) ==
    IF addrs = <<>> THEN f ELSE CountAll(Tail(addrs), FreqPut(f, Head(addrs)))

RECURSIVE SumTerms(_, _)
SumTerms(f, tot) ==
    IF f = <<>> THEN 0 ELSE EntropyTerm(f[1].count, tot) + SumTerms(Tail(f), tot)

ShannonEntropy(addrs) ==
    IF addrs = <<>> THEN 0 ELSE Round4(SumTerms(CountAll(addrs, <<>>), Len(addrs)))

---------------------------------------------------------------------------
Init == InitBurst \/ InitHeat \/ InitRisk \/ InitEnt

Next ==
    \/ BurstLoop \/ BurstReturn
    \/ HeatSetup \/ HeatBucketize \/ HeatNormalize \/ HeatReturn
    \/ RiskCalc
    \/ EntropyEmpty \/ EntropyCount \/ EntropyTotal \/ EntropyAccum \/ EntropyReturn

Spec == Init /\ [][Next]_vars

---------------------------------------------------------------------------
\* Properties of detect_volume_bursts.

\* ratio_j >= threshold_ratio at position j of the call's volumes
Qualifies(j) ==
    RatioGeq(Ratio(At(volumes, j - 1), At(volumes, j)), threshold_ratio)

EmittedIdx == {events[k].index : k \in 1..Len(events)}

\* lastEventIndex as position j sees it: the largest emitted index below j,
\* or -min_interval when there is none.
LastBefore(j) ==
    LET below == {e \in EmittedIdx : e < j}
    IN  IF below = {} THEN -min_interval
        ELSE CHOOSE e \in below : \A f \in below : f <= e

\* C1: after the loop has handled positions 1..i-1, position j has an event
\* iff its ratio reaches the threshold and it lies at least min_interval
\* after the last event before it (counted from -min_interval); so the first
\* qualifying position has fired, the emitted indices increase strictly,
\* consecutive ones lie at least min_interval apart when min_interval >= 1,
\* and with min_interval = 2 exactly one of two adjacent qualifying
\* positions has an event.
C1_BurstRule ==
    fn = "burst" =>
        /\ EmittedIdx \subseteq 1..(i - 1)
        /\ \A j \in 1..(i - 1) :
              (j \in EmittedIdx) <=>
                  (Qualifies(j) /\ (j - LastBefore(j)) >= min_interval)
        /\ \A j \in 1..(i - 1) :
              (Qualifies(j) /\ \A h \in 1..(j - 1) : ~Qualifies(h))
                  => (events # <<>> /\ events[1].index = j)
        /\ \A k \in 1..(Len(events) - 1) : events[k].index < events[k + 1].index
        /\ min_interval >= 1 =>
              \A k \in 1..(Len(events) - 1) :
                  events[k + 1].index - events[k].index >= min_interval
        /\ min_interval = 2 =>
              \A j \in 1..(i - 2) :
                  (Qualifies(j) /\ Qualifies(j + 1))
                      => Cardinality({j, j + 1} \cap EmittedIdx) = 1
        /\ \A k \in 1..Len(events) :
              /\ events[k].previous = At(volumes, events[k].index - 1)
              /\ events[k].current = At(volumes, events[k].index)
        /\ pc = "done" => result = events

\* A finished call with min_interval = 2 in which two adjacent positions
\* qualified, one of them was suppressed, and a later one fired again.
C1_Witness ==
    /\ fn = "burst" /\ pc = "done" /\ min_interval = 2
    /\ Len(events) = 2
    /\ \E j \in 1..(Len(volumes) - 2) :
          Qualifies(j) /\ Qualifies(j + 1) /\ j \in EmittedIdx /\ (j + 1) \notin EmittedIdx

---------------------------------------------------------------------------
\* Properties of generate_activity_heatmap.

HeatDone == fn = "heat" /\ pc = "done"

ReturnedValues == IF return_bins THEN result[1] ELSE result

ReturnedBins == result[2]

EqualLength == Len(timestamps) = Len(counts)

\* C2: with equal-length inputs, buckets >= 1 and normalize = false the
\* returned aggregates sum to the sum of the counts; during the loop the
\* aggregates sum to the counts of the pairs handled so far, all of them in
\* the buckets 0..buckets-1.
C2_SumPreserved ==
    (fn = "heat" /\ pc \in {"bucketize", "return", "done"} /\ EqualLength) =>
        /\ DOMAIN agg = 1..buckets
        /\ SumSeq(agg) = SumSeq(SubSeq(counts, 1, zip_pos))
        /\ (pc = "done" /\ ~normalize) =>
              /\ zip_pos = Len(counts)
              /\ SumSeq(ReturnedValues) = SumSeq(counts)

\* A finished raw call whose two pairs went to different buckets, one of
\* them the clamped last bucket.
C2_Witness ==
    /\ HeatDone /\ ~normalize /\ EqualLength
    /\ Len(counts) = 2 /\ buckets = 3
    /\ counts[1] # 0 /\ counts[2] # 0
    /\ ReturnedValues[1] # 0 /\ ReturnedValues[3] # 0

\* C3: a call with timestamps and counts of different lengths does not
\* return a histogram; it raises.
C3_MismatchRaises ==
    (fn = "heat" /\ buckets >= 1 /\ ~EqualLength) => pc # "done"

\* C4 as stated: empty timestamps give an empty value sequence and, when
\* requested, an empty bin list.
C4_EmptyGivesEmpty ==
    (HeatDone /\ timestamps = <<>>) =>
        /\ ReturnedValues = <<>>
        /\ return_bins => ReturnedBins = <<>>

IsZeroValue(v) == IF normalize THEN v.num = 0 ELSE v = 0

\* C4 amended: empty timestamps give exactly `buckets` values, all zero, for
\* every buckets >= 1 and either value of normalize, and when return_bins
\* is true the bin list has `buckets` entries.
C4_EmptyGivesZeros ==
    (HeatDone /\ timestamps = <<>>) =>
        /\ Len(ReturnedValues) = buckets
        /\ \A k \in 1..buckets : IsZeroValue(ReturnedValues[k])
        /\ return_bins => Len(ReturnedBins) = buckets

C4_Witness ==
    /\ HeatDone /\ timestamps = <<>> /\ counts = <<>>
    /\ buckets = 3 /\ normalize /\ return_bins
    /\ Len(ReturnedValues) = 3

\* C5: every returned value sequence has exactly `buckets` elements, and so
\* has the bin list when return_bins is true.
C5_BucketCount ==
    HeatDone =>
        /\ buckets >= 1
        /\ Len(ReturnedValues) = buckets
        /\ return_bins => Len(ReturnedBins) = buckets

\* A finished call on a single-valued timestamp range with bins requested.
C5_Witness ==
    /\ HeatDone /\ return_bins /\ buckets = 3
    /\ Len(timestamps) = 2 /\ timestamps[1] = timestamps[2]
    /\ Len(ReturnedBins) = 3

InUnitInterval(v) == 0 <= v.num /\ v.num <= v.den

IsOne(v) == v.num = v.den

NormalizedRange ==
    /\ \A k \in 1..Len(ReturnedValues) : InUnitInterval(ReturnedValues[k])
    /\ (\E k \in 1..Len(agg) : agg[k] # 0)
          => \E k \in 1..Len(ReturnedValues) : IsOne(ReturnedValues[k])

\* C6 as stated: with normalize = true and counts of any sign every
\* returned value lies in [0,1], and one is 1 when an aggregate is nonzero.
C6_AnySign ==
    (HeatDone /\ normalize /\ EqualLength) => NormalizedRange

\* C6 amended: with normalize = true and non-negative integer counts every
\* returned value lies in [0,1], and one is 1 when an aggregate is nonzero.
C6_NonNegative ==
    (HeatDone /\ normalize /\ EqualLength
        /\ \A k \in 1..Len(counts) : counts[k] >= 0) => NormalizedRange

\* A normalized call with aggregates 1 and 3: values 1/3 and 1.
C6_Witness ==
    /\ HeatDone /\ normalize /\ EqualLength
    /\ \A k \in 1..Len(counts) : counts[k] >= 0
    /\ \E k \in 1..buckets : ReturnedValues[k] = [num |-> 1, den |-> 3]
    /\ \E k \in 1..buckets : IsOne(ReturnedValues[k])

\* C9: with normalize = true every returned value times 10^4 is an integer.
C9_RoundedTo4 ==
    (HeatDone /\ normalize) =>
        \A k \in 1..Len(ReturnedValues) :
            (ReturnedValues[k].num * 10000) % ReturnedValues[k].den = 0

---------------------------------------------------------------------------
\* Properties of calculate_risk_score.

RiskDone == fn = "risk" /\ pc = "done"

\* C7: the score lies in [0,100]; the three terms are non-negative.
C7_ScoreRange ==
    RiskDone =>
        /\ vol_score >= 0 /\ liq_score >= 0 /\ flag_score >= 0
        /\ raw_score = vol_score + liq_score + flag_score
        /\ 0 <= result /\ result <= 100 * Micro

\* A call with liquidity between 0 and 1 USD whose sum exceeds 100.
C7_Witness ==
    /\ RiskDone
    /\ liquidity_usd > 0 /\ liquidity_usd < 100
    /\ raw_score > 100 * Micro
    /\ result = 100 * Micro

\* C8: the liquidity term is at most 30 and is 0 from 10^6 USD on, and no
\* call with the same price change and flags and a liquidity at least as
\* large scores higher.
C8_LiquidityMonotone ==
    RiskDone =>
        /\ liq_score <= 30 * Micro
        /\ liquidity_usd >= 100 * 1000000 => liq_score = 0
        /\ \A b \in Liquidities : \A up \in BOOLEAN :
              (liquidity_usd <= b
                  /\ RawScore(price_change_pct, b, flags_mask) # raw_score)
                  => result >= RiskScore(price_change_pct, b, flags_mask, up)

---------------------------------------------------------------------------
\* Properties of compute_shannon_entropy.

EntDone == fn = "entropy" /\ pc = "done"

AllIdentical(s) == \A j, k \in 1..Len(s) : s[j] = s[k]

PairwiseDistinct(s) == \A j, k \in 1..Len(s) : j # k => s[j] # s[k]

\* How many labels occur exactly n times in s.
LabelsWithCount(s, n) ==
    Cardinality({a \in AddrSet : Cardinality({k \in 1..Len(s) : s[k] = a}) = n})

SameFrequencies(s, t) ==
    /\ Len(s) = Len(t)
    /\ \A n \in 1..Len(s) : LabelsWithCount(s, n) = LabelsWithCount(t, n)

EntropyBasics ==
    /\ addresses = <<>> => result = 0
    /\ (addresses # <<>> /\ AllIdentical(addresses)) => result = 0
    /\ result >= 0
    /\ \A q \in SeqsUpTo(AddrSet, MaxAddrLen) :
          SameFrequencies(q, addresses) => ShannonEntropy(q) = result

\* C10 as stated: n pairwise-distinct labels give log2(n).
C10_ExactLog ==
    EntDone =>
        /\ EntropyBasics
        /\ (addresses # <<>> /\ PairwiseDistinct(addresses))
              => result = Log2Int(Len(addresses))

\* C10 amended: the result is 0.0 for the empty sequence and for identical
\* labels, log2(n) rounded to 4 decimal places for n pairwise-distinct
\* labels (1.0 for n = 2, 2.0 for n = 4), never negative, and the same for
\* all sequences with the same multiset of label frequencies.
C10_RoundedLog ==
    EntDone =>
        /\ EntropyBasics
        /\ (addresses # <<>> /\ PairwiseDistinct(addresses))
              => result = Round4(Log2Int(Len(addresses)))
        /\ (PairwiseDistinct(addresses) /\ Len(addresses) = 2) => result = Micro
        /\ (PairwiseDistinct(addresses) /\ Len(addresses) = 4) => result = 2 * Micro

\* Three distinct labels: 1.585, not log2(3).
C10_Witness ==
    /\ EntDone /\ Len(addresses) = 3 /\ PairwiseDistinct(addresses)
    /\ result = 1585000
====
